---- MODULE Spec2Model ----
(***************************************************************************)
(* Model of raphtory_mcp.py: the connection-handle lifespan, the query     *)
(* dispatcher query_db, the resources get_schema, check_graph_exists and   *)
(* get_graph_schema, and the prompt raphtory_prompt.                       *)
(*                                                                         *)
(* Python values are tagged pairs <<t, v>>: t is the Python type, v the    *)
(* payload.  A str is a sequence of one-character strings, so that the     *)
(* substring test, the prefix test and the ordering of str are computed.   *)
(* A dict is a function from key names to values, a list is a sequence.    *)
(* A handler outcome is [raised, value]: raised is TRUE when the handler   *)
(* ends by raising, and value then names the exception type.               *)
(***************************************************************************)
EXTENDS Integers, Sequences, FiniteSets, TLC

\* ------------------------------------------------------------------------
\* Bounds of the model
\* ------------------------------------------------------------------------

\* Number of tool/resource invocations that may be in progress at once.
NumInvocations == 2

Procs == 1..NumInvocations

\* ------------------------------------------------------------------------
\* Python values
\* ------------------------------------------------------------------------

Null == <<"null", 0>>
Bool(b) == <<"bool", b>>
Num(n) == <<"num", n>>
Str(s) == <<"str", s>>
List(s) == <<"list", s>>
Dict(f) == <<"dict", f>>
\* A reference to the object a response was decoded into.
Ref(i) == <<"ref", i>>

EmptyMap == [k \in {} |-> Null]

Return(x) == [raised |-> FALSE, value |-> x]
Raise(exc) == [raised |-> TRUE, value |-> Str(<<exc>>)]

\* The characters of the str literals the code tests with `in`.
Spell ==
    [errors |-> <<"e", "r", "r", "o", "r", "s">>,
     data |-> <<"d", "a", "t", "a">>,
     edgeTypes |-> <<"e", "d", "g", "e", "T", "y", "p", "e", "s">>,
     properties |-> <<"p", "r", "o", "p", "e", "r", "t", "i", "e", "s">>,
     values |-> <<"v", "a", "l", "u", "e", "s">>,
     value |-> <<"v", "a", "l", "u", "e">>]

\* The characters used in str values, in code point order.
Alphabet ==
    <<" ", "2", ":", "E", "G", "T", "a", "d", "e", "g", "h", "i", "k", "l",
      "m", "n", "o", "p", "r", "s", "t", "u", "w", "x", "y">>

ord(c) == CHOOSE i \in 1..Len(Alphabet) : Alphabet[i] = c

MinOf(a, b) == IF a < b THEN a ELSE b

\* str.__lt__: the first differing character decides, a proper prefix is less.
StrLess(a, b) ==
    \E i \in 1..(MinOf(Len(a), Len(b)) + 1) :
        /\ \A j \in 1..(i - 1) : a[j] = b[j]
        /\ \/ i > Len(a) /\ i <= Len(b)
           \/ i <= Len(a) /\ i <= Len(b) /\ ord(a[i]) < ord(b[i])

\* str.__contains__: sub occurs in s as a contiguous run.
IsSubstring(sub, s) ==
    \E i \in 0..(Len(s) - Len(sub)) : SubSeq(s, i + 1, i + Len(sub)) = sub

\* bool(x): the truth value Python gives x.
Truthy(x) ==
    CASE x[1] = "null" -> FALSE
      [] x[1] = "bool" -> x[2]
      [] x[1] = "num" -> x[2] # 0
      [] x[1] = "str" -> Len(x[2]) > 0
      [] x[1] = "list" -> Len(x[2]) > 0
      [] x[1] = "dict" -> DOMAIN x[2] # {}

\* a == b
PyEq(a, b) ==
    IF a[1] \in {"bool", "num"} /\ b[1] \in {"bool", "num"}
    THEN LET n(x) == IF x[1] = "num" THEN x[2] ELSE IF x[2] THEN 1 ELSE 0
         IN  n(a) = n(b)
    ELSE a[1] = b[1] /\ a[2] = b[2]

\* `k in x` raises TypeError when x is no container.
InRaises(x) == x[1] \notin {"dict", "list", "str"}

\* `k in x` for a str literal k: a key of a dict, an element of a list, a
\* substring of a str.
In(k, x) ==
    CASE x[1] = "dict" -> k \in DOMAIN x[2]
      [] x[1] = "list" -> \E i \in 1..Len(x[2]) : x[2][i] = Str(Spell[k])
      [] x[1] = "str" -> IsSubstring(Spell[k], x[2])

\* x.get(k, default) raises AttributeError unless x is a dict.
GetRaises(x) == x[1] # "dict"
Get(x, k, default) == IF k \in DOMAIN x[2] THEN x[2][k] ELSE default

\* `for item in x` raises TypeError when x is not iterable.
IterRaises(x) == x[1] \in {"null", "bool", "num"}

\* The items `for item in x` visits, for a list or a str.
Items(x) ==
    CASE x[1] = "list" -> {x[2][i] : i \in 1..Len(x[2])}
      [] x[1] = "str" -> {Str(<<x[2][i]>>) : i \in 1..Len(x[2])}

\* set.add(x) raises TypeError when x is unhashable.
Unhashable(x) == x[1] \in {"list", "dict"}

\* x < y raises TypeError unless both are str or both are numbers.
Orderable(x, y) ==
    \/ x[1] = "str" /\ y[1] = "str"
    \/ x[1] \in {"bool", "num"} /\ y[1] \in {"bool", "num"}

PyLess(x, y) ==
    IF x[1] = "str" THEN StrLess(x[2], y[2])
    ELSE LET n(z) == IF z[1] = "num" THEN z[2] ELSE IF z[2] THEN 1 ELSE 0
         IN  n(x) < n(y)

\* sorted(list(S)) raises TypeError when two elements cannot be ordered.
SortedRaises(S) == \E x, y \in S : x # y /\ ~Orderable(x, y)

RECURSIVE sorted(_)
sorted(S) ==
    IF S = {} THEN <<>>
    ELSE LET m == CHOOSE x \in S : \A y \in S \ {x} : PyLess(x, y)
         IN  <<m>> \o sorted(S \ {m})

\* d[k] = val and del d[k] on the mapping of a dict.
SetItem(f, k, val) == [x \in DOMAIN f \cup {k} |-> IF x = k THEN val ELSE f[x]]
DelItem(f, k) == [x \in DOMAIN f \ {k} |-> f[x]]

\* ------------------------------------------------------------------------
\* query_db: the request it posts and the value it returns
\* ------------------------------------------------------------------------

DefaultEndpoint == Str(<<"http://localhost:1736/">>)

\* `variables or {}`
VariablesOrEmpty(variables) ==
    IF Truthy(variables) THEN variables ELSE Dict(EmptyMap)

\* The POST of line 39: endpoint, JSON body and headers.
PostRequest(endpoint, query, variables) ==
    [endpoint |-> endpoint,
     json |-> Dict([query |-> query, variables |-> VariablesOrEmpty(variables)]),
     headers |-> Dict([ContentType |-> Str(<<"application/json">>)])]

NoRequest == [endpoint |-> Null, json |-> Null, headers |-> Null]

ErrorPrefix == <<"E", "r", "r", "o", "r", ":", " ">>

\* f"Error: {str(e)}" for an exception whose str() is e.
ErrorStringBare(e) == Str(e)
ErrorString(e) == Str(ErrorPrefix \o e)

\* What the transport step of one call does: post raises, or the post
\* succeeds and response.json() raises, or both succeed with a decoded body.
PostRaises(e) == [kind |-> "post_raises", e |-> Str(e)]
JsonRaises(e) == [kind |-> "json_raises", e |-> Str(e)]
Decoded(body) == [kind |-> "ok", e |-> body]
NoOutcome == [kind |-> "none", e |-> Null]

\* The try/except of query_db: the decoded body, or the error string.
query_db_result(outcome) ==
    IF outcome.kind = "ok" THEN outcome.e ELSE ErrorString(outcome.e[2])

\* ------------------------------------------------------------------------
\* The query texts, as sequences of lexical tokens (white space dropped)
\* ------------------------------------------------------------------------

introspection_query ==
    Str(<<"{", "__schema", "{", "types", "{", "name",
          "fields(includeDeprecated: false)", "{", "name", "description",
          "args", "{", "name", "defaultValue", "}", "}", "}", "}", "}">>)

\* verify_query of check_graph_exists: the template % graph_name
verify_query(graph_name) ==
    Str(<<"{", "graph(path: \"">> \o graph_name[2] \o
        <<"\")", "{", "nodes", "{", "list", "{", "name", "}", "}", "}", "}">>)

\* "variants" if include_variants == "true" else ""
variants_field(include_variants) ==
    IF PyEq(include_variants, Str(<<"t", "r", "u", "e">>))
    THEN <<"variants">> ELSE <<>>

\* schema_query of get_graph_schema: the template % (graph_name, variants)
schema_query(graph_name, include_variants) ==
    Str(<<"{", "graph(path: \"">> \o graph_name[2] \o
        <<"\")", "{", "schema", "{", "nodes", "{", "properties", "{",
          "key", "propertyType">> \o variants_field(include_variants) \o
        <<"}", "}", "}", "edgeTypes: edges", "{", "list", "{", "properties",
          "{", "keys", "values", "{", "value", "}", "}", "}", "}", "}", "}">>)

\* ------------------------------------------------------------------------
\* check_graph_exists: the classification of the probe's result
\* ------------------------------------------------------------------------

check_graph_exists_result(result) ==
    IF InRaises(result) THEN Raise("TypeError")
    ELSE IF In("errors", result) THEN Return(Bool(FALSE))
    ELSE Return(Bool(TRUE))

\* ------------------------------------------------------------------------
\* get_graph_schema
\* ------------------------------------------------------------------------

\* `if not exists:` the short circuit of line 101.
ShortCircuitNever(exists) == FALSE
ShortCircuit(exists) == ~Truthy(exists)

\* {"errors": [{"message": f"Graph {graph_name} does not exist"}]}
NotExistError(graph_name) ==
    Dict([errors |-> List(<<Dict([message |->
        Str(<<"G", "r", "a", "p", "h", " ">> \o graph_name[2] \o
            <<" ", "d", "o", "e", "s", " ", "n", "o", "t", " ",
              "e", "x", "i", "s", "t">>)])>>)])

\* x[k] raises TypeError unless x is a dict, KeyError when k is no key.
SubscriptRaises(x, k) == x[1] # "dict" \/ k \notin DOMAIN x[2]

\* The body of `for value in edge["properties"]["values"]` raises.
ValuesRaise(vals) ==
    \/ IterRaises(vals)
    \/ \E value \in Items(vals) :
          \/ InRaises(value)
          \/ In("value", value)
               /\ (SubscriptRaises(value, "value") \/ Unhashable(value[2].value))

\* The body of `for edge in edges` raises on this edge.
EdgeRaises(edge) ==
    \/ InRaises(edge)
    \/ In("properties", edge)
         /\ \/ SubscriptRaises(edge, "properties")
            \/ InRaises(edge[2].properties)
            \/ In("values", edge[2].properties)
                 /\ \/ SubscriptRaises(edge[2].properties, "values")
                    \/ ValuesRaise(edge[2].properties[2].values)

\* What one edge adds to unique_relationships.
EdgeValues(edge) ==
    IF In("properties", edge) /\ In("values", edge[2].properties)
    THEN {value[2].value :
            value \in {x \in Items(edge[2].properties[2].values) : In("value", x)}}
    ELSE {}

\* unique_relationships after the loop over edges.
unique_relationships(edges) == UNION {EdgeValues(edge) : edge \in Items(edges)}

\* The outer condition, line 134.
HasData(schema_result) ==
    /\ schema_result[1] = "dict"
    /\ "data" \in DOMAIN schema_result[2]
    /\ Truthy(schema_result[2].data)

\* `graph_data and "edgeTypes" in graph_data`, line 136.
ShouldAggregate(graph_data) ==
    Truthy(graph_data) /\ In("edgeTypes", graph_data)

\* The response with graph_data["relationships"] set and
\* graph_data["edgeTypes"] deleted, the edit being made in place.
WithRelationships(schema_result, relationships) ==
    LET data == schema_result[2].data
        graph_data == data[2].graph
        edited == DelItem(SetItem(graph_data[2], "relationships", relationships),
                          "edgeTypes")
    IN  Dict(SetItem(schema_result[2], "data",
                     Dict(SetItem(data[2], "graph", Dict(edited)))))

\* Lines 134-151: what get_graph_schema does with the schema query's result.
Aggregate(schema_result) ==
    IF ~HasData(schema_result) THEN Return(schema_result)
    ELSE IF GetRaises(schema_result[2].data) THEN Raise("AttributeError")
    ELSE
      LET graph_data == Get(schema_result[2].data, "graph", Dict(EmptyMap)) IN
      IF Truthy(graph_data) /\ InRaises(graph_data) THEN Raise("TypeError")
      ELSE IF ~ShouldAggregate(graph_data) THEN Return(schema_result)
      ELSE IF graph_data[1] # "dict" THEN Raise("TypeError")
      ELSE IF "edgeTypes" \notin DOMAIN graph_data[2] THEN Raise("KeyError")
      ELSE IF GetRaises(graph_data[2].edgeTypes) THEN Raise("AttributeError")
      ELSE
        LET edges == Get(graph_data[2].edgeTypes, "list", List(<<>>)) IN
        IF IterRaises(edges) THEN Raise("TypeError")
        ELSE IF \E edge \in Items(edges) : EdgeRaises(edge)
        THEN Raise("TypeError")
        ELSE IF SortedRaises(unique_relationships(edges))
        THEN Raise("TypeError")
        ELSE Return(WithRelationships(schema_result,
                        List(sorted(unique_relationships(edges)))))

\* ------------------------------------------------------------------------
\* raphtory_prompt
\* ------------------------------------------------------------------------

Lit(s) == [field |-> FALSE, text |-> s]
Field(name) == [field |-> TRUE, text |-> name]

\* The template of lines 157-173: its literal text and replacement fields.
PromptTemplate ==
    <<Lit("You are an expert ... by using the schema://graph/"),
      Field("graphName"),
      Lit(" resource to understand ... The user's request is: "),
      Field("message"),
      Lit(" Please write a valid GraphQL query to answer their question.")>>

RECURSIVE Substitute(_, _)
Substitute(template, kwargs) ==
    IF template = <<>> THEN <<>>
    ELSE LET piece == Head(template)
         IN  (IF piece.field THEN kwargs[piece.text][2] ELSE <<piece.text>>)
             \o Substitute(Tail(template), kwargs)

\* str.format(**kwargs): KeyError when a replacement field has no argument.
format(template, kwargs) ==
    IF \E i \in 1..Len(template) :
          template[i].field /\ template[i].text \notin DOMAIN kwargs
    THEN Raise("KeyError")
    ELSE Return(Str(Substitute(template, kwargs)))

raphtory_prompt_result(message) == format(PromptTemplate, [message |-> message])

\* ------------------------------------------------------------------------
\* Inputs: the arguments the host passes and what the remote end answers
\* ------------------------------------------------------------------------

knows == Str(<<"k", "n", "o", "w", "s">>)
likes == Str(<<"l", "i", "k", "e", "s">>)

GraphNames == {Str(<<"g">>), Str(<<"h">>)}

\* include_variants: the bool of the signature, and the text of the URI.
IncludeVariants ==
    {Bool(TRUE), Bool(FALSE), Str(<<"t", "r", "u", "e">>),
     Str(<<"f", "a", "l", "s", "e">>)}

\* The (query, endpoint, variables) of the query_db calls the host makes.
QueryDbCalls ==
    {[query |-> Str(<<"{", "version", "}">>), endpoint |-> DefaultEndpoint,
      variables |-> Null],
     [query |-> Str(<<"{", "version", "}">>), endpoint |-> DefaultEndpoint,
      variables |-> Dict(EmptyMap)],
     [query |-> Str(<<"query($id: Int)", "{", "node(id: $id)", "}">>),
      endpoint |-> Str(<<"http://remote:1736/">>),
      variables |-> Dict([id |-> Num(1)])]}

Messages == {Str(<<"h", "i">>)}

\* str(e) of the exceptions the transport raises.
ExcTexts ==
    {<<>>, <<"t", "i", "m", "e", "d", " ", "o", "u", "t">>,
     <<"2", " ", "e", "r", "r", "o", "r", "s">>}

Val(x) == Dict([value |-> x])
Edge(vals) ==
    Dict([properties |-> Dict([keys |-> List(<<Str(<<"t", "y", "p", "e">>)>>),
                               values |-> List(vals)])])
NodeSchema == Dict([nodes |-> List(<<>>)])
GraphWith(edgeTypes) ==
    Dict([data |-> Dict([graph |->
        Dict([schema |-> NodeSchema, edgeTypes |-> edgeTypes])])])
GraphQLErrors == List(<<Dict([message |-> Str(<<"e", "r", "r", "o", "r">>)])>>)

\* Decoded bodies whose data.graph has the key edgeTypes.
EdgeBodies ==
    {GraphWith(Dict([list |-> List(<<Edge(<<Val(knows), Val(knows)>>),
                                     Edge(<<Val(likes)>>)>>)])),
     GraphWith(Dict([list |-> List(<<Edge(<<Val(likes), Val(knows)>>)>>)])),
     GraphWith(Dict([list |-> List(<<Edge(<<Val(Num(3)), Val(Num(2))>>)>>)])),
     GraphWith(Dict([list |-> List(<<Edge(<<Val(knows)>>),
                                     Edge(<<Val(Num(3))>>)>>)])),
     GraphWith(Dict([list |-> List(<<Dict(EmptyMap),
                                     Dict([properties |-> Dict([keys |-> List(<<>>)])]),
                                     Edge(<<Dict(EmptyMap), Val(likes)>>)>>)])),
     GraphWith(Dict([list |-> List(<<>>)])),
     GraphWith(Dict(EmptyMap)),
     GraphWith(Dict([list |-> Null])),
     GraphWith(Dict([list |-> List(<<Null>>)])),
     GraphWith(Null)}

\* Decoded bodies without data.graph.edgeTypes, and bodies that are no object.
OtherBodies ==
    {Dict([data |-> Dict([graph |-> Dict([nodes |-> Dict([list |-> List(<<>>)])])])]),
     Dict([data |-> Dict([graph |-> Dict(EmptyMap)])]),
     Dict([data |-> Dict([graph |-> Null])]),
     Dict([data |-> Dict([version |-> Str(<<"2">>)])]),
     Dict([data |-> Dict(EmptyMap)]),
     Dict([data |-> List(<<Num(1)>>)]),
     Dict([data |-> Dict([graph |-> Str(<<"g">>)])]),
     Dict([data |-> Null, errors |-> GraphQLErrors]),
     Dict([data |-> Dict([graph |-> Dict([schema |-> NodeSchema])]),
           errors |-> GraphQLErrors]),
     Dict([errors |-> GraphQLErrors]),
     Dict(EmptyMap),
     List(<<Str(Spell["errors"])>>),
     Null,
     Num(5)}

Bodies == EdgeBodies \cup OtherBodies

\* Every way the transport step of one call can end.
Outcomes ==
    {PostRaises(e) : e \in ExcTexts} \cup {JsonRaises(e) : e \in ExcTexts}
        \cup {Decoded(body) : body \in Bodies}

\* All the inputs: what one invocation can be given and can be answered.
AllInputs ==
    [names |-> GraphNames, variants |-> IncludeVariants,
     calls |-> QueryDbCalls, messages |-> Messages, outcomes |-> Outcomes,
     limit |-> 1]

\* One input of each class, for invocations that run concurrently: a
\* transport failure, a body that is no object, an error response, a
\* response that is aggregated in place, one that is returned as it is, one
\* on which the aggregation raises.
SomeInputs ==
    [names |-> {Str(<<"g">>)},
     variants |-> {Bool(TRUE)},
     calls |-> {[query |-> Str(<<"{", "version", "}">>),
                 endpoint |-> DefaultEndpoint, variables |-> Null]},
     messages |-> Messages,
     outcomes |->
        {PostRaises(<<"t", "i", "m", "e", "d", " ", "o", "u", "t">>),
         Decoded(Null),
         Decoded(Dict([data |-> Null, errors |-> GraphQLErrors])),
         Decoded(GraphWith(Dict([list |-> List(<<Edge(<<Val(likes), Val(knows)>>)>>)]))),
         Decoded(Dict([data |-> Dict([graph |-> Dict([schema |-> NodeSchema])])])),
         Decoded(GraphWith(Null))},
     limit |-> NumInvocations]

\* ------------------------------------------------------------------------
\* State
\* ------------------------------------------------------------------------

VARIABLES
    phase,      \* app_lifespan: "start", "serving", "exiting", "closed"
    exit,       \* how the serving phase ended: "none", "normal", "error"
    created,    \* number of httpx.AsyncClient objects constructed
    closed,     \* number of aclose() calls made
    pc,         \* per invocation: "idle", "await", "await_probe",
                \* "await_schema", "done", "raised"
    op,         \* per invocation: the operation the host invoked
    args,       \* per invocation: the arguments of the operation
    request,    \* per invocation: the request awaiting its response
    outcome,    \* per invocation: how its latest transport step ended
    probed,     \* per invocation: how the probe of get_graph_schema ended
    exists,     \* per invocation: the local `exists` of get_graph_schema
    calls,      \* per invocation: number of query_db calls made
    posts,      \* per invocation: number of requests posted
    ret,        \* per invocation: the value returned or exception raised
    heap        \* the objects the decoded responses live in

vars == <<phase, exit, created, closed, pc, op, args, request, outcome,
          probed, exists, calls, posts, ret, heap>>

lifespanVars == <<phase, exit, created, closed>>

NoArgs ==
    [query |-> Null, endpoint |-> Null, variables |-> Null,
     graph_name |-> Null, include_variants |-> Null, message |-> Null]

NoObject == <<"none", 0>>

\* The value an invocation returned: the object behind a reference.
Deref(x) == IF x[1] = "ref" THEN heap[x[2]] ELSE x

\* The number of live connection handles.
Live == created - closed

Init ==
    /\ phase = "start"
    /\ exit = "none"
    /\ created = 0
    /\ closed = 0
    /\ pc = [p \in Procs |-> "idle"]
    /\ op = [p \in Procs |-> "none"]
    /\ args = [p \in Procs |-> NoArgs]
    /\ request = [p \in Procs |-> NoRequest]
    /\ outcome = [p \in Procs |-> NoOutcome]
    /\ probed = [p \in Procs |-> NoOutcome]
    /\ exists = [p \in Procs |-> Null]
    /\ calls = [p \in Procs |-> 0]
    /\ posts = [p \in Procs |-> 0]
    /\ ret = [p \in Procs |-> Null]
    /\ heap = [p \in Procs |-> NoObject]

\* ------------------------------------------------------------------------
\* app_lifespan
\* ------------------------------------------------------------------------

\* Line 16: the client is constructed, then the context is yielded.
Startup ==
    /\ phase = "start"
    /\ created' = created + 1
    /\ phase' = "serving"
    /\ UNCHANGED <<exit, closed, pc, op, args, request, outcome, probed, exists,
                   calls, posts, ret, heap>>

\* The body of the `with` ends, normally or by an exception thrown into the
\* generator at the yield; the host has stopped running invocations.
ServeEnd(kind) ==
    /\ phase = "serving"
    /\ phase' = "exiting"
    /\ exit' = kind
    /\ pc' = [p \in Procs |-> "idle"]
    /\ op' = [p \in Procs |-> "none"]
    /\ args' = [p \in Procs |-> NoArgs]
    /\ request' = [p \in Procs |-> NoRequest]
    /\ outcome' = [p \in Procs |-> NoOutcome]
    /\ probed' = [p \in Procs |-> NoOutcome]
    /\ exists' = [p \in Procs |-> Null]
    /\ calls' = [p \in Procs |-> 0]
    /\ posts' = [p \in Procs |-> 0]
    /\ ret' = [p \in Procs |-> Null]
    /\ heap' = [p \in Procs |-> NoObject]
    /\ UNCHANGED <<created, closed>>

\* try/finally, lines 17-20: the finally block runs however the body ended.
FinallyOnNormalExit(kind) == kind = "normal"
FinallyRuns(kind) == kind \in {"normal", "error"}

\* Line 20: await graphql_client.aclose()
Release ==
    /\ phase = "exiting"
    /\ FinallyRuns(exit)
    /\ closed' = closed + 1
    /\ phase' = "closed"
    /\ UNCHANGED <<exit, created, pc, op, args, request, outcome, probed, exists,
                   calls, posts, ret, heap>>

\* ------------------------------------------------------------------------
\* query_db, up to its await
\* ------------------------------------------------------------------------

\* Line 39 posts one request on the shared client.
PostCached(n) == n
Post(n) == n + 1

\* response.json() builds a new object for every response.
NewObjectShared(self) == CHOOSE i \in Procs : \A j \in Procs : i <= j
NewObject(self) == self

\* query_db from its entry to the await of line 39: the handle is read from
\* the lifespan context (line 31), never constructed here.
Dispatch(self, query, endpoint, variables, next) ==
    /\ phase = "serving"
    /\ Live = 1
    /\ request' = [request EXCEPT ![self] = PostRequest(endpoint, query, variables)]
    /\ calls' = [calls EXCEPT ![self] = @ + 1]
    /\ posts' = [posts EXCEPT ![self] = Post(@)]
    /\ pc' = [pc EXCEPT ![self] = next]
    /\ UNCHANGED lifespanVars

\* query_db from the resumption of line 39 to its return: the result object.
Receive(self, o) ==
    /\ phase = "serving"
    /\ outcome' = [outcome EXCEPT ![self] = o]
    /\ request' = [request EXCEPT ![self] = NoRequest]
    /\ UNCHANGED <<lifespanVars, op, args, calls>>

\* The end of a handler: it returns a value or raises.
Finish(self, result) ==
    /\ pc' = [pc EXCEPT ![self] = IF result.raised THEN "raised" ELSE "done"]
    /\ ret' = [ret EXCEPT ![self] = result.value]

\* ------------------------------------------------------------------------
\* The operations the host invokes
\* ------------------------------------------------------------------------

\* The invocations in progress or finished and not yet collected.
InProgress == {p \in Procs : pc[p] # "idle"}

\* The host starts an operation while fewer than `limit` are in progress.
Invoke(self, name, a, limit) ==
    /\ pc[self] = "idle"
    /\ Cardinality(InProgress) < limit
    /\ op' = [op EXCEPT ![self] = name]
    /\ args' = [args EXCEPT ![self] = a]

\* tool query_db(query, endpoint, variables)
Call_query_db(self, query, endpoint, variables, limit) ==
    /\ Invoke(self, "query_db",
              [NoArgs EXCEPT !.query = query, !.endpoint = endpoint,
                             !.variables = variables], limit)
    /\ Dispatch(self, query, endpoint, variables, "await")
    /\ UNCHANGED <<outcome, probed, exists, ret, heap>>

Resume_query_db(self, o) ==
    /\ pc[self] = "await"
    /\ op[self] = "query_db"
    /\ Receive(self, o)
    /\ heap' = [heap EXCEPT ![NewObject(self)] = query_db_result(o)]
    /\ Finish(self, Return(Ref(NewObject(self))))
    /\ UNCHANGED <<probed, exists, posts>>

\* resource schema://database
Call_get_schema(self, limit) ==
    /\ Invoke(self, "get_schema", NoArgs, limit)
    /\ Dispatch(self, introspection_query, DefaultEndpoint, Null, "await")
    /\ UNCHANGED <<outcome, probed, exists, ret, heap>>

Resume_get_schema(self, o) ==
    /\ pc[self] = "await"
    /\ op[self] = "get_schema"
    /\ Receive(self, o)
    /\ heap' = [heap EXCEPT ![NewObject(self)] = query_db_result(o)]
    /\ Finish(self, Return(Ref(NewObject(self))))
    /\ UNCHANGED <<probed, exists, posts>>

\* resource schema://graph_exists/{graph_name}
Call_check_graph_exists(self, graph_name, limit) ==
    /\ Invoke(self, "check_graph_exists",
              [NoArgs EXCEPT !.graph_name = graph_name], limit)
    /\ Dispatch(self, verify_query(graph_name), DefaultEndpoint, Null, "await")
    /\ UNCHANGED <<outcome, probed, exists, ret, heap>>

Resume_check_graph_exists(self, o) ==
    /\ pc[self] = "await"
    /\ op[self] = "check_graph_exists"
    /\ Receive(self, o)
    /\ heap' = [heap EXCEPT ![NewObject(self)] = query_db_result(o)]
    /\ Finish(self, check_graph_exists_result(query_db_result(o)))
    /\ UNCHANGED <<probed, exists, posts>>

\* resource schema://{graph_name}/{include_variants}, up to the await of the
\* probe made by check_graph_exists (line 100).
Call_get_graph_schema(self, graph_name, include_variants, limit) ==
    /\ Invoke(self, "get_graph_schema",
              [NoArgs EXCEPT !.graph_name = graph_name,
                             !.include_variants = include_variants], limit)
    /\ Dispatch(self, verify_query(graph_name), DefaultEndpoint, Null, "await_probe")
    /\ UNCHANGED <<outcome, probed, exists, ret, heap>>

\* Lines 100-131: the probe's classification, then the short circuit or the
\* schema query.
Resume_probe(self, o) ==
    /\ pc[self] = "await_probe"
    /\ outcome' = [outcome EXCEPT ![self] = o]
    /\ probed' = [probed EXCEPT ![self] = o]
    /\ heap' = [heap EXCEPT ![NewObject(self)] = query_db_result(o)]
    /\ LET classified == check_graph_exists_result(query_db_result(o)) IN
       IF classified.raised
       THEN /\ Finish(self, classified)
            /\ request' = [request EXCEPT ![self] = NoRequest]
            /\ phase = "serving"
            /\ UNCHANGED <<lifespanVars, exists, calls, posts>>
       ELSE /\ exists' = [exists EXCEPT ![self] = classified.value]
            /\ IF ShortCircuit(classified.value)
               THEN /\ Finish(self, Return(NotExistError(args[self].graph_name)))
                    /\ request' = [request EXCEPT ![self] = NoRequest]
                    /\ phase = "serving"
                    /\ UNCHANGED <<lifespanVars, calls, posts>>
               ELSE /\ Dispatch(self,
                                schema_query(args[self].graph_name,
                                             args[self].include_variants),
                                DefaultEndpoint, Null, "await_schema")
                    /\ UNCHANGED ret
    /\ UNCHANGED <<op, args>>

\* Lines 131-151: the schema query's result, aggregated in place.
Resume_schema(self, o) ==
    /\ pc[self] = "await_schema"
    /\ Receive(self, o)
    /\ LET aggregated == Aggregate(query_db_result(o)) IN
       IF aggregated.raised
       THEN /\ heap' = [heap EXCEPT ![NewObject(self)] = query_db_result(o)]
            /\ Finish(self, aggregated)
       ELSE /\ heap' = [heap EXCEPT ![NewObject(self)] = aggregated.value]
            /\ Finish(self, Return(Ref(NewObject(self))))
    /\ UNCHANGED <<probed, exists, posts>>

\* prompt raphtory_prompt(message): no await, the handler runs to its end.
Call_raphtory_prompt(self, message, limit) ==
    /\ phase = "serving"
    /\ Invoke(self, "raphtory_prompt", [NoArgs EXCEPT !.message = message], limit)
    /\ Finish(self, raphtory_prompt_result(message))
    /\ UNCHANGED <<lifespanVars, request, outcome, probed, exists, calls, posts,
                   heap>>

\* The host takes the outcome of a finished invocation.
Collect(self) ==
    /\ phase = "serving"
    /\ pc[self] \in {"done", "raised"}
    /\ pc' = [pc EXCEPT ![self] = "idle"]
    /\ op' = [op EXCEPT ![self] = "none"]
    /\ args' = [args EXCEPT ![self] = NoArgs]
    /\ outcome' = [outcome EXCEPT ![self] = NoOutcome]
    /\ probed' = [probed EXCEPT ![self] = NoOutcome]
    /\ exists' = [exists EXCEPT ![self] = Null]
    /\ calls' = [calls EXCEPT ![self] = 0]
    /\ posts' = [posts EXCEPT ![self] = 0]
    /\ ret' = [ret EXCEPT ![self] = Null]
    /\ heap' = [heap EXCEPT ![self] = NoObject]
    /\ UNCHANGED <<lifespanVars, request>>

\* One step of one invocation, its inputs drawn from `inputs`.
Serve(self, inputs) ==
    \/ \E c \in inputs.calls :
          Call_query_db(self, c.query, c.endpoint, c.variables, inputs.limit)
    \/ Call_get_schema(self, inputs.limit)
    \/ \E g \in inputs.names : Call_check_graph_exists(self, g, inputs.limit)
    \/ \E g \in inputs.names, iv \in inputs.variants :
          Call_get_graph_schema(self, g, iv, inputs.limit)
    \/ \E m \in inputs.messages : Call_raphtory_prompt(self, m, inputs.limit)
    \/ \E o \in inputs.outcomes :
          \/ Resume_query_db(self, o)
          \/ Resume_get_schema(self, o)
          \/ Resume_check_graph_exists(self, o)
          \/ Resume_probe(self, o)
          \/ Resume_schema(self, o)
    \/ Collect(self)

Lifespan ==
    \/ Startup
    \/ \E kind \in {"normal", "error"} : ServeEnd(kind)
    \/ Release

\* The server: any number of invocations in progress on the one handle,
\* interleaved at their awaits.
Next ==
    \/ Lifespan
    \/ \E self \in Procs : Serve(self, SomeInputs)

Spec == Init /\ [][Next]_vars

\* The finally block is not starved: once the body has ended, aclose runs.
LiveSpec == Spec /\ WF_vars(Release)

\* The server given one invocation at a time, over all the inputs.
NextAll ==
    \/ Lifespan
    \/ \E self \in Procs : Serve(self, AllInputs)

SpecAll == Init /\ [][NextAll]_vars

\* ------------------------------------------------------------------------
\* Properties
\* ------------------------------------------------------------------------

\* s begins with prefix.
StartsWith(s, prefix) ==
    Len(prefix) <= Len(s) /\ SubSeq(s, 1, Len(prefix)) = prefix

GetGraphSchema(p) == op[p] = "get_graph_schema"
Ended(p) == pc[p] \in {"done", "raised"}

\* What query_db returned to invocation p's latest call.
Result(p) == query_db_result(outcome[p])

\* The value invocation p returned.
Returned(p) == Deref(ret[p])

\* The object has the key `errors`.
HasErrorsKey(x) == x[1] = "dict" /\ "errors" \in DOMAIN x[2]

\* The response is an object whose data.graph is an object with the key
\* edgeTypes (data and data.graph are then not empty).
HasEdgeTypes(x) ==
    /\ x[1] = "dict"
    /\ "data" \in DOMAIN x[2]
    /\ x[2].data[1] = "dict"
    /\ "graph" \in DOMAIN x[2].data[2]
    /\ x[2].data[2].graph[1] = "dict"
    /\ "edgeTypes" \in DOMAIN x[2].data[2].graph[2]

\* The schema query of p was answered and its answer processed.
SchemaEnded(p) ==
    GetGraphSchema(p) /\ Ended(p) /\ exists[p] = Bool(TRUE)

TrueText == Str(<<"t", "r", "u", "e">>)

\* C1: get_graph_schema returns the object {errors: [{message: "Graph <name>
\* does not exist"}]} whenever the probe is classified false, having made one
\* dispatch; the schema query is dispatched only after the probe was
\* classified true, and the invocation then makes exactly two dispatches.
C1_ShortCircuit ==
    \A p \in Procs :
        GetGraphSchema(p) =>
            /\ exists[p] = Bool(FALSE) =>
                  /\ pc[p] = "done"
                  /\ Returned(p) = Dict([errors |-> List(<<Dict([message |->
                        Str(<<"G", "r", "a", "p", "h", " ">>
                            \o args[p].graph_name[2]
                            \o <<" ", "d", "o", "e", "s", " ", "n", "o", "t",
                                 " ", "e", "x", "i", "s", "t">>)])>>)])
                  /\ calls[p] = 1
                  /\ posts[p] = 1
            /\ pc[p] = "await_schema" =>
                  /\ exists[p] = Bool(TRUE)
                  /\ ~HasErrorsKey(query_db_result(probed[p]))
            /\ calls[p] = 2 <=> exists[p] = Bool(TRUE)
            /\ calls[p] \in {1, 2}
            /\ posts[p] = calls[p]

C1_Witness ==
    \E p \in Procs :
        /\ GetGraphSchema(p)
        /\ pc[p] = "done"
        /\ exists[p] = Bool(FALSE)
        /\ calls[p] = 1
        /\ HasErrorsKey(Returned(p))

\* C2: check_graph_exists returns false exactly when the dispatcher's result
\* is an object with the key `errors`, and true for every other result, a
\* transport-failure string of any text included.
C2_FalseIffErrorsKey ==
    \A p \in Procs :
        op[p] = "check_graph_exists" /\ Ended(p) =>
            /\ pc[p] = "done"
            /\ Returned(p) = Bool(~HasErrorsKey(Result(p)))

\* C3: no operation ends by raising, whatever the arguments and whatever
\* the remote end answers.
C3_NoOperationRaises == \A p \in Procs : pc[p] # "raised"

\* The relationships of the returned graph object.
Relationships(x) == x[2].data[2].graph[2].relationships[2]

\* C4: when the schema query's response has a non-empty data.graph with the
\* key edgeTypes, the returned graph object has no key edgeTypes and its
\* relationships are, in ascending order and without duplicates, exactly
\* the .value scalars of the properties.values of the edges of edgeTypes.list.
C4_RelationshipsSortedUnique ==
    \A p \in Procs :
        SchemaEnded(p) /\ HasEdgeTypes(Result(p)) =>
            /\ pc[p] = "done"
            /\ LET graph == Returned(p)[2].data[2].graph[2]
                   edges == Get(Result(p)[2].data[2].graph[2].edgeTypes,
                                "list", List(<<>>))
                   rel == Relationships(Returned(p))
               IN  /\ "edgeTypes" \notin DOMAIN graph
                   /\ "relationships" \in DOMAIN graph
                   /\ {rel[i] : i \in 1..Len(rel)} = unique_relationships(edges)
                   /\ \A i, j \in 1..Len(rel) : i < j => PyLess(rel[i], rel[j])

\* The built schema query selects the sub-field `variants`.
SelectsVariants(query) == \E i \in 1..Len(query[2]) : query[2][i] = "variants"

\* C5: the schema query selects `variants` exactly when include_variants is
\* true, be it the bool of the signature or the text "true" of the URI.
C5_VariantsIffTrue ==
    \A p \in Procs :
        pc[p] = "await_schema" =>
            (SelectsVariants(request[p].json[2].query)
                <=> args[p].include_variants \in {Bool(TRUE), TrueText})

\* C6: when the schema query's result is no object with a non-empty
\* data.graph that has the key edgeTypes, get_graph_schema returns exactly
\* that result: nothing added, nothing removed.
C6_ReturnedUnmodified ==
    \A p \in Procs :
        SchemaEnded(p) /\ ~HasEdgeTypes(Result(p)) =>
            /\ pc[p] = "done"
            /\ Returned(p) = Result(p)
            /\ (outcome[p].kind = "ok" => Returned(p) = outcome[p].e)

\* The operations that return query_db's result as it is.
Dispatching(p) == op[p] \in {"query_db", "get_schema"}

\* C7: when the transport step raises, query_db returns a str that begins
\* with "Error: " and nothing is raised; when it succeeds, query_db returns
\* the decoded body as it is.
C7_ErrorString ==
    \A p \in Procs :
        Dispatching(p) /\ Ended(p) =>
            /\ pc[p] = "done"
            /\ outcome[p].kind \in {"post_raises", "json_raises"} =>
                  /\ Returned(p)[1] = "str"
                  /\ StartsWith(Returned(p)[2], ErrorPrefix)
            /\ outcome[p].kind = "ok" => Returned(p) = outcome[p].e

C7_Witness ==
    \E p \in Procs :
        /\ op[p] = "query_db"
        /\ pc[p] = "done"
        /\ outcome[p].kind = "json_raises"
        /\ StartsWith(Returned(p)[2], ErrorPrefix)

Awaiting(p) == pc[p] \in {"await", "await_probe", "await_schema"}

\* C8: the handle is created once, at startup; at most one handle is live;
\* no dispatch creates a handle; and once the serving phase has ended,
\* normally or with an error, aclose eventually runs, and runs once.
C8_InitOnceTeardownOnce ==
    /\ [](/\ created <= 1
          /\ closed <= created
          /\ Live <= 1
          /\ phase # "start" => created = 1
          /\ phase = "closed" <=> closed = 1)
    /\ [][posts' # posts => created' = created /\ Live = 1]_vars
    /\ [](phase = "exiting" => <>(closed = 1))

C8_Witness ==
    /\ phase = "closed"
    /\ exit = "error"
    /\ created = 1
    /\ closed = 1

\* C9: every query_db call posts exactly one request: none is answered
\* without a request, two identical requests are both posted, and a failed
\* attempt is final.
C9_OneRequestPerCall ==
    \A p \in Procs :
        /\ posts[p] = calls[p]
        /\ Awaiting(p) <=> request[p] # NoRequest
        /\ Dispatching(p) /\ Ended(p) => posts[p] = 1
        /\ outcome[p] # NoOutcome => posts[p] >= 1

C9_Witness ==
    \E p, q \in Procs :
        /\ p # q
        /\ Dispatching(p)
        /\ pc[p] = "done"
        /\ outcome[p].kind = "post_raises"
        /\ posts[p] = 1
        /\ Awaiting(q)
        /\ request[q].json = PostRequest(args[p].endpoint, args[p].query,
                                         args[p].variables).json

\* What invocation p returns or raises when it runs alone with its own
\* arguments and the responses to its own requests.
Alone(p) ==
    CASE Dispatching(p) -> Return(Result(p))
      [] op[p] = "check_graph_exists" -> check_graph_exists_result(Result(p))
      [] op[p] = "raphtory_prompt" -> raphtory_prompt_result(args[p].message)
      [] GetGraphSchema(p) ->
            LET classified == check_graph_exists_result(query_db_result(probed[p]))
            IN  IF classified.raised THEN classified
                ELSE IF ~Truthy(classified.value)
                THEN Return(NotExistError(args[p].graph_name))
                ELSE Aggregate(Result(p))

\* C10: whatever the interleaving of the invocations at their awaits, each
\* returns what it returns when run alone with the same arguments and the
\* same responses to its own requests.
C10_Isolation ==
    \A p \in Procs :
        Ended(p) =>
            /\ (pc[p] = "raised") = Alone(p).raised
            /\ Returned(p) = Alone(p).value

C10_Witness ==
    \E p, q \in Procs :
        /\ p # q
        /\ GetGraphSchema(p)
        /\ pc[p] = "done"
        /\ exists[p] = Bool(TRUE)
        /\ HasEdgeTypes(Result(p))
        /\ "relationships" \in DOMAIN Returned(p)[2].data[2].graph[2]
        /\ GetGraphSchema(q)
        /\ pc[q] = "await_schema"

====
